---- MODULE Spec2Model ----
(***************************************************************************)
(* Model of package poll (src/internal/poll/poll.go): a poller bound to a  *)
(* root context and an interval, and its Poll(ctx, check) loop.            *)
(*                                                                         *)
(* Time is a discrete clock `now` counted in nanoseconds, the unit of      *)
(* time.Duration; it advances freely between any two steps of a call, so   *)
(* every step of Poll may be delayed by the scheduler.  A time.Ticker is   *)
(* its runtime timer (when, period) and its channel of capacity one; the   *)
(* runtime fires it at or after `when` with a non-blocking send, and       *)
(* Ticker.Reset re-arms the timer without draining the channel.            *)
(***************************************************************************)
EXTENDS Integers, FiniteSets, TLC

\* The clock stops at MaxTime when one goroutine calls Poll, and at
\* MaxTimeConc when two do.
MaxTime == 6
MaxTimeConc == 1

\* A call invokes check at most MaxChecks times (MaxChecksConc when two
\* goroutines call Poll).
MaxChecks == 3
MaxChecksConc == 1

\* The interval New is given, in nanoseconds.
Interval == 3

\* The goroutines that call Poll on the one Poller; each makes one call.
Calls == {"a", "b"}

\* time.NewTicker(1): the period of the ticker before its first Reset.
InitialPeriod == 1

\* What check returns: (true, nil), (false, nil), (_, err # nil).
CheckResults == {"done", "notdone", "err"}

\* A ticker that does not exist yet, or that Stop has turned off.
NoTicker == [running |-> FALSE, when |-> 0, period |-> 0, full |-> FALSE]

VARIABLES
    now,        \* the wall clock (time.Now)
    callers,    \* the goroutines that call Poll in this run
    pl,         \* the poller: [interval]; its rootCtx is the variable rootCtx
    rootCtx,    \* pl.rootCtx: "open" or "cancelled"
    ctx,        \* per call: ctx: "open", "cancelled" or "expired"
    pc,         \* per call: the place of the call in Poll
    start,      \* per call: start (line 43)
    tc,         \* per call: the ticker tc (line 47)
    checks,     \* per call: the number of check invocations begun
    chk,        \* per call: what the last check invocation returned
    chkEnd,     \* per call: the time the last check invocation returned
    err,        \* per call: the named result err (line 72)
    ret,        \* per call: what Poll returned, and what held when it did
    late,       \* per call: check invocations begun after a signal had fired
    inflight    \* per call: check invocations begun and not yet returned

vars == <<now, callers, pl, rootCtx, ctx, pc, start, tc, checks, chk,
          chkEnd, err, ret, late, inflight>>

\* A call that has not returned.
NoRet == [err |-> "none", took |-> 0, path |-> "none", root |-> "nil",
          at |-> 0]

\* New(rootCtx, interval): the poller keeps both as given.
New(interval) == [interval |-> interval]

\* The bounds of a run.
Horizon == IF callers = Calls THEN MaxTimeConc ELSE MaxTime
CheckCap == IF callers = Calls THEN MaxChecksConc ELSE MaxChecks

\* The intervals the program may hand to New: the --poll-interval flag is
\* any duration, zero and negative ones included, and reaches New unchecked.
IntervalInputs == {-1, 0, 1, Interval}

\* The state after New(rootCtx, i), with the goroutines `who` about to call
\* Poll.
InitFor(who, i) ==
    /\ now = 0
    /\ callers = who
    /\ pl = New(i)
    /\ rootCtx = "open"
    /\ ctx = [c \in Calls |-> "open"]
    /\ pc = [c \in Calls |-> "idle"]
    /\ start = [c \in Calls |-> 0]
    /\ tc = [c \in Calls |-> NoTicker]
    /\ checks = [c \in Calls |-> 0]
    /\ chk = [c \in Calls |-> "none"]
    /\ chkEnd = [c \in Calls |-> 0]
    /\ err = [c \in Calls |-> "nil"]
    /\ ret = [c \in Calls |-> NoRet]
    /\ late = [c \in Calls |-> [root |-> 0, ctx |-> 0]]
    /\ inflight = [c \in Calls |-> 0]

InitWith(who) == InitFor(who, Interval)

\* One goroutine calls Poll.
Init == InitWith({"a"})

\* One goroutine calls Poll on a Poller made with any interval of the flag.
InitNew == \E i \in IntervalInputs : InitFor({"a"}, i)

\* Two goroutines call Poll on the same Poller.
InitConc == InitWith(Calls)

(***************************************************************************)
(* The clock, the two signals and the ticker's runtime timer.              *)
(***************************************************************************)

\* Context.Err(): nil while the context is open, then Canceled or
\* DeadlineExceeded for good.
Err(cx) ==
    CASE cx = "open" -> "nil"
      [] cx = "cancelled" -> "Canceled"
      [] cx = "expired" -> "DeadlineExceeded"

\* Mutant: the subtraction is the wrong way round.
Since_Reversed(t) == t - now

\* time.Since(t)
Since(t) == now - t

\* time.NewTicker(d) at time t: the first tick is due d later.
NewTicker(d, t) == [running |-> TRUE, when |-> t + d, period |-> d, full |-> FALSE]

\* tc.Reset(d) at time t: the timer is re-armed, the channel is left as it is.
Reset(tk, d, t) == [tk EXCEPT !.when = t + d, !.period = d]

\* Mutant: the ticker is never stopped.
Stop_Forgotten(tk) == tk

\* tc.Stop()
Stop(tk) == [tk EXCEPT !.running = FALSE]

\* The runtime runs the timer at time t >= when: a non-blocking send on the
\* channel (a tick sent to a full channel is dropped), and the next tick is
\* due at the first multiple of the period after t.
Fire(tk, t) ==
    [tk EXCEPT !.full = TRUE,
               !.when = tk.when + tk.period * (1 + ((t - tk.when) \div tk.period))]

\* case <-tc.C: the tick is taken out of the channel.
Receive(tk) == [tk EXCEPT !.full = FALSE]

Tick ==
    /\ now < Horizon
    /\ now' = now + 1
    /\ UNCHANGED <<callers, pl, rootCtx, ctx, pc, start, tc, checks, chk,
                   chkEnd, err, ret, late, inflight>>

\* The owner of the root context cancels it.
CancelRoot ==
    /\ rootCtx = "open"
    /\ rootCtx' = "cancelled"
    /\ UNCHANGED <<now, callers, pl, ctx, pc, start, tc, checks, chk,
                   chkEnd, err, ret, late, inflight>>

\* The context of call c is cancelled by its owner (how = "cancelled") or
\* reaches its deadline (how = "expired"); it never changes again.
CtxDone(c, how) ==
    /\ c \in callers
    /\ pc[c] # "done"
    /\ ctx[c] = "open"
    /\ ctx' = [ctx EXCEPT ![c] = how]
    /\ UNCHANGED <<now, callers, pl, rootCtx, pc, start, tc, checks, chk,
                   chkEnd, err, ret, late, inflight>>

\* The runtime fires the ticker of call c.
TickerFire(c) ==
    /\ tc[c].running
    /\ now >= tc[c].when
    /\ tc' = [tc EXCEPT ![c] = Fire(tc[c], now)]
    /\ UNCHANGED <<now, callers, pl, rootCtx, ctx, pc, start, checks, chk,
                   chkEnd, err, ret, late, inflight>>

(***************************************************************************)
(* Poll (poll.go lines 42-77), one action per step between two reads of    *)
(* shared state.  A call at "select" with no case ready is blocked in the  *)
(* select; with both cases ready either may be taken, as Go's select       *)
(* chooses among its ready cases at random.  The select has no case for    *)
(* ctx.Done().                                                             *)
(***************************************************************************)

\* The value Poll returns, with the deferred tc.Stop().
Return(c, took, e, path) ==
    /\ ret' = [ret EXCEPT ![c] = [err |-> e, took |-> took, path |-> path,
                                  root |-> Err(rootCtx), at |-> now]]
    /\ tc' = [tc EXCEPT ![c] = Stop(tc[c])]
    /\ pc' = [pc EXCEPT ![c] = "done"]

\* Mutant: the ticker is kept in the poller, one for all calls.
StartTicker_Shared(c) == [d \in Calls |-> NewTicker(InitialPeriod, now)]

\* line 47: the ticker is a local of the call
StartTicker(c) == [tc EXCEPT ![c] = NewTicker(InitialPeriod, now)]

\* lines 43-48: start := time.Now(); tc := time.NewTicker(1)
Poll(c) ==
    /\ c \in callers
    /\ pc[c] = "idle"
    /\ start' = [start EXCEPT ![c] = now]
    /\ tc' = StartTicker(c)
    /\ pc' = [pc EXCEPT ![c] = "loop"]
    /\ UNCHANGED <<now, callers, pl, rootCtx, ctx, checks, chk, chkEnd,
                   err, ret, late, inflight>>

\* Mutant: the loop gives up after two attempts.
LoopCond_AttemptLimit(c) ==
    Err(rootCtx) = "nil" /\ Err(ctx[c]) = "nil" /\ checks[c] < 2

\* Mutant: the loop condition does not look at the call's context.
LoopCond_NoCtx(c) == Err(rootCtx) = "nil"

\* Mutant: the loop condition does not look at the root context.
LoopCond_NoRoot(c) == Err(ctx[c]) = "nil"

\* line 50: pl.rootCtx.Err() == nil && ctx.Err() == nil
LoopCond(c) == Err(rootCtx) = "nil" /\ Err(ctx[c]) = "nil"

Loop(c) ==
    /\ pc[c] = "loop"
    /\ pc' = [pc EXCEPT ![c] = IF LoopCond(c) THEN "select" ELSE "final"]
    /\ UNCHANGED <<now, callers, pl, rootCtx, ctx, start, tc, checks, chk,
                   chkEnd, err, ret, late, inflight>>

\* Mutant: the root case returns the error of the call's context.
AbortErr_CtxErr(c) == Err(ctx[c])

\* line 53: what the root case of the select returns
AbortErr(c) == "ErrAborted"

\* lines 51-53: the select takes the root case, one of its ready cases
SelectRoot(c) ==
    /\ pc[c] = "select"
    /\ Err(rootCtx) # "nil"
    /\ Return(c, Since(start[c]), AbortErr(c), "wait")
    /\ UNCHANGED <<now, callers, pl, rootCtx, ctx, start, checks, chk,
                   chkEnd, err, late, inflight>>

\* lines 51, 54: the select takes the tick, one of its ready cases
SelectTick(c) ==
    /\ pc[c] = "select"
    /\ tc[c].full
    /\ tc' = [tc EXCEPT ![c] = Receive(tc[c])]
    /\ pc' = [pc EXCEPT ![c] = "reset"]
    /\ UNCHANGED <<now, callers, pl, rootCtx, ctx, start, checks, chk,
                   chkEnd, err, ret, late, inflight>>

\* Ticker.Reset panics when it is given a non-positive interval.
ResetPanics(d) == d <= 0

\* line 55: tc.Reset(pl.interval); when it panics, the deferred tc.Stop()
\* runs and the panic leaves Poll.
ResetTicker(c) ==
    /\ pc[c] = "reset"
    /\ IF ResetPanics(pl.interval)
          THEN /\ tc' = [tc EXCEPT ![c] = Stop(tc[c])]
               /\ pc' = [pc EXCEPT ![c] = "panic"]
          ELSE /\ tc' = [tc EXCEPT ![c] = Reset(tc[c], pl.interval, now)]
               /\ pc' = [pc EXCEPT ![c] = "call"]
    /\ UNCHANGED <<now, callers, pl, rootCtx, ctx, start, checks, chk,
                   chkEnd, err, ret, late, inflight>>

\* Mutant: check is started in a goroutine of its own and Poll goes on.
AfterCall_Async(c) == "loop"

\* line 58: Poll is blocked in check() until it returns
AfterCall(c) == "checking"

\* line 58: check() is entered
CallCheck(c) ==
    /\ pc[c] = "call"
    /\ checks[c] < CheckCap
    /\ checks' = [checks EXCEPT ![c] = @ + 1]
    /\ late' = [late EXCEPT
                  ![c].root = IF Err(rootCtx) # "nil" THEN @ + 1 ELSE @,
                  ![c].ctx = IF Err(ctx[c]) # "nil" THEN @ + 1 ELSE @]
    /\ inflight' = [inflight EXCEPT ![c] = @ + 1]
    /\ pc' = [pc EXCEPT ![c] = AfterCall(c)]
    /\ UNCHANGED <<now, callers, pl, rootCtx, ctx, start, tc, chk, chkEnd,
                   err, ret>>

\* Mutant: an error of check is not absorbed.
Continue_OnlyNotDone(r) == r = "notdone"

\* lines 59-65: whether the loop goes on after check returned r
Continue(r) == r = "err" \/ r = "notdone"

\* lines 58-69: check() returns r
CheckReturns(c, r) ==
    /\ pc[c] = "checking"
    /\ chk' = [chk EXCEPT ![c] = r]
    /\ chkEnd' = [chkEnd EXCEPT ![c] = now]
    /\ inflight' = [inflight EXCEPT ![c] = @ - 1]
    /\ IF Continue(r)
          THEN /\ pc' = [pc EXCEPT ![c] = "loop"]
               /\ UNCHANGED <<tc, ret>>
          ELSE Return(c, Since(start[c]), "nil", "success")
    /\ UNCHANGED <<now, callers, pl, rootCtx, ctx, start, checks, err, late>>

\* Mutant: any end of the call's context is reported as a deadline.
CtxErr_Generic(c) == IF ctx[c] = "open" THEN "nil" ELSE "DeadlineExceeded"

\* line 72: ctx.Err()
CtxErr(c) == Err(ctx[c])

\* line 72: err = ctx.Err()
Final(c) ==
    /\ pc[c] = "final"
    /\ err' = [err EXCEPT ![c] = CtxErr(c)]
    /\ pc' = [pc EXCEPT ![c] = "decide"]
    /\ UNCHANGED <<now, callers, pl, rootCtx, ctx, start, tc, checks, chk,
                   chkEnd, ret, late, inflight>>

\* Mutant: the error of the call's context, once set, is kept.
FinalErr_CtxFirst(e, root) ==
    IF e # "nil" THEN e ELSE IF root # "nil" THEN "ErrAborted" ELSE e

\* lines 73-75: if pl.rootCtx.Err() != nil { err = ErrAborted }
FinalErr(e, root) == IF root # "nil" THEN "ErrAborted" ELSE e

\* lines 73-76
Decide(c) ==
    /\ pc[c] = "decide"
    /\ Return(c, Since(start[c]), FinalErr(err[c], Err(rootCtx)), "final")
    /\ UNCHANGED <<now, callers, pl, rootCtx, ctx, start, checks, chk,
                   chkEnd, err, late, inflight>>

Next ==
    \/ Tick
    \/ CancelRoot
    \/ \E c \in Calls, how \in {"cancelled", "expired"} : CtxDone(c, how)
    \/ \E c \in Calls : TickerFire(c)
    \/ \E c \in Calls : Poll(c)
    \/ \E c \in Calls : Loop(c)
    \/ \E c \in Calls : SelectRoot(c)
    \/ \E c \in Calls : SelectTick(c)
    \/ \E c \in Calls : ResetTicker(c)
    \/ \E c \in Calls : CallCheck(c)
    \/ \E c \in Calls, r \in CheckResults : CheckReturns(c, r)
    \/ \E c \in Calls : Final(c)
    \/ \E c \in Calls : Decide(c)

Spec == Init /\ [][Next]_vars

SpecConc == InitConc /\ [][Next]_vars

\* A step of call c inside Poll; check() returning is one of them.
PollStep(c) ==
    \/ Loop(c)
    \/ SelectRoot(c)
    \/ SelectTick(c)
    \/ ResetTicker(c)
    \/ CallCheck(c)
    \/ \E r \in CheckResults : CheckReturns(c, r)
    \/ Final(c)
    \/ Decide(c)

\* One goroutine calls Poll on a Poller made with any interval of the flag.
SpecNew == InitNew /\ [][Next]_vars

\* What the scheduling gives: the clock advances, the runtime fires a due
\* ticker, a goroutine that can take its next step of Poll takes it (a select
\* with a ready case proceeds), and every check invocation returns.
Fairness ==
    /\ WF_vars(Tick)
    /\ \A c \in Calls : WF_vars(TickerFire(c)) /\ WF_vars(PollStep(c))

\* Two goroutines call Poll on the same Poller, under that scheduling.
SpecConcLive == SpecConc /\ Fairness

(***************************************************************************)
(* Properties.  ret[c].root is pl.rootCtx.Err() as it was when call c      *)
(* returned and ret[c].at the time it returned; the context of a call does *)
(* not change after the call returned.                                     *)
(***************************************************************************)

Returned(c) == pc[c] = "done"

CtxErrors == {"Canceled", "DeadlineExceeded"}

\* C1 as stated: a call that returns after the root signal has fired returns
\* ErrAborted, whatever check returned.
C1_RootAlwaysAborts ==
    \A c \in Calls :
        Returned(c) /\ ret[c].root # "nil" => ret[c].err = "ErrAborted"

\* C1, amended: a call that returns after the root signal has fired never
\* returns the error of its own context; it returns ErrAborted, or nil when
\* it returns from a check invocation that reported done.
C1_RootBeatsOperationSignal ==
    \A c \in Calls :
        Returned(c) /\ ret[c].root # "nil" =>
            /\ ret[c].err \in {"ErrAborted", "nil"}
            /\ ret[c].err = "nil" => ret[c].path = "success" /\ chk[c] = "done"

\* Both signals have fired and the call returned ErrAborted.
C1_Witness ==
    \E c \in Calls :
        /\ Returned(c) /\ ret[c].root # "nil" /\ ctx[c] # "open"
        /\ ret[c].err = "ErrAborted"

\* C2: when the loop ends without a successful check and the root signal has
\* fired by the time Poll reads it at line 73, Poll returns ErrAborted also
\* when it had read an error of the call's context before; it returns that
\* error only when the root signal had not fired at that read.
C2_RootWinsAtDecision ==
    \A c \in Calls :
        Returned(c) /\ ret[c].path = "final" =>
            /\ ret[c].root # "nil" => ret[c].err = "ErrAborted"
            /\ ret[c].err \in CtxErrors => ret[c].root = "nil" /\ ret[c].err = err[c]

\* Line 72 read an error of the call's context and line 73 replaced it.
C2_Witness ==
    \E c \in Calls :
        /\ Returned(c) /\ ret[c].path = "final"
        /\ err[c] \in CtxErrors /\ ret[c].err = "ErrAborted"

\* C3: Poll returns nil, ErrAborted or the error of the call's context; it
\* returns nil only from a check invocation that reported done, and after a
\* check invocation failed it returns only because a signal fired.
C3_CheckErrorsAbsorbed ==
    \A c \in Calls :
        Returned(c) =>
            /\ ret[c].err \in {"nil", "ErrAborted"} \cup CtxErrors
            /\ ret[c].path = "success" => chk[c] = "done"
            /\ chk[c] = "err" => ret[c].root # "nil" \/ Err(ctx[c]) # "nil"

\* A check invocation failed and the next one is under way.
C3_Witness ==
    \E c \in Calls : chk[c] = "err" /\ pc[c] = "checking" /\ checks[c] >= 2

\* C4: a call none of whose check invocations reported done returns only
\* after a signal fired, never nil: ErrAborted when the root signal has
\* fired, the error of the call's context otherwise.
C4_NeverDoneNeverNil ==
    \A c \in Calls :
        Returned(c) /\ chk[c] # "done" =>
            /\ ret[c].err # "nil"
            /\ ret[c].root # "nil" \/ ctx[c] # "open"
            /\ ret[c].err = IF ret[c].root # "nil" THEN "ErrAborted" ELSE Err(ctx[c])

\* Several check invocations, none reported done, and the deadline ended the call.
C4_Witness ==
    \E c \in Calls :
        /\ Returned(c) /\ chk[c] \in {"notdone", "err"} /\ checks[c] >= 2
        /\ ret[c].err = "DeadlineExceeded"

\* C5: a call that ends by the operation signal alone returns the error of
\* that signal: Canceled after a cancel, DeadlineExceeded after the deadline.
C5_OperationErrorVerbatim ==
    \A c \in Calls :
        Returned(c) /\ ret[c].path = "final" /\ ret[c].root = "nil" =>
            /\ ctx[c] = "cancelled" => ret[c].err = "Canceled"
            /\ ctx[c] = "expired" => ret[c].err = "DeadlineExceeded"
            /\ ctx[c] # "open"

\* The call's context was cancelled, the root never fired, Poll returned Canceled.
C5_Witness ==
    \E c \in Calls :
        /\ Returned(c) /\ ret[c].path = "final" /\ rootCtx = "open"
        /\ ctx[c] = "cancelled" /\ ret[c].err = "Canceled"

\* C6: with neither signal fired, a call returns nil from the check
\* invocation that reported done, the k-th, and not before k-1 intervals
\* have passed since it started.
C6_KChecksKMinusOneIntervals ==
    \A c \in Calls :
        Returned(c) /\ rootCtx = "open" /\ ctx[c] = "open" =>
            /\ ret[c].err = "nil" /\ chk[c] = "done"
            /\ ret[c].took >= (checks[c] - 1) * pl.interval

\* C7: a check invocation after the first begins no sooner than one interval
\* after the invocation before it returned.
C7_IntervalAfterCompletion ==
    [][\A c \in Calls :
          pc[c] = "call" /\ pc'[c] = "checking" /\ checks[c] >= 1 =>
              now >= chkEnd[c] + pl.interval]_vars

\* C8: the wait of an iteration ends when the operation signal fires: a call
\* at the select whose context has ended is not left waiting for a tick.
C8_WaitEndsOnOperationSignal ==
    \A c \in Calls :
        pc[c] = "select" /\ ctx[c] # "open" =>
            ENABLED (SelectRoot(c) \/ SelectTick(c))

\* C9 as stated: no check invocation begins after the root signal has fired.
C9_NoCheckAfterRoot == \A c \in Calls : late[c].root = 0

\* C9, amended: at most one check invocation of a call begins after the root
\* signal has fired, and a call that leaves the wait by the root signal
\* returns ErrAborted from there.
C9_AtMostOneCheckAfterRoot ==
    \A c \in Calls :
        /\ late[c].root <= 1
        /\ Returned(c) /\ ret[c].path = "wait" =>
              ret[c].err = "ErrAborted" /\ ret[c].root # "nil"

\* The root signal fired while the call waited for its second tick: the call
\* returned ErrAborted and no check invocation began after the signal.
C9_Witness ==
    \E c \in Calls :
        /\ Returned(c) /\ ret[c].path = "wait" /\ ret[c].err = "ErrAborted"
        /\ checks[c] = 1 /\ late[c].root = 0

\* What belongs to call c.
Local(c) == <<ctx[c], pc[c], start[c], tc[c], checks[c], chk[c], chkEnd[c],
              err[c], ret[c], late[c], inflight[c]>>

\* C10: no step changes what belongs to two calls, no step changes the
\* poller's interval, and a step that changes the root context changes
\* nothing of any call (it is no step of Poll).
C10_CallsIndependent ==
    [][/\ Cardinality({c \in Calls : Local(c)' # Local(c)}) <= 1
       /\ pl' = pl
       /\ rootCtx' # rootCtx => \A c \in Calls : Local(c)' = Local(c)]_vars

\* Two calls on the same poller: the context of one was cancelled and it
\* returned Canceled, the other went on and returned nil.
C10_Witness ==
    /\ Returned("a") /\ ctx["a"] = "cancelled" /\ ret["a"].err = "Canceled"
    /\ Returned("b") /\ ctx["b"] = "open" /\ ret["b"].err = "nil"
    /\ checks["b"] >= 1

\* C11: a call in flight has a running ticker of its own, and a call that
\* has returned, by whichever path, has stopped it: once every call has
\* returned no ticker is running.
C11_TickerStoppedOnReturn ==
    \A c \in Calls :
        /\ pc[c] \notin {"idle", "done", "panic"} => tc[c].running
        /\ Returned(c) => ~tc[c].running /\ tc[c].period > 0

\* Two calls have returned, one from the wait by the root signal and one
\* from a check that reported done, and neither ticker is running.
C11_Witness ==
    /\ Returned("a") /\ ret["a"].path = "wait"
    /\ Returned("b") /\ ret["b"].path = "success"
    /\ \A c \in Calls : ~tc[c].running

\* C12: a call has one check invocation in flight while it is blocked in
\* check() and none otherwise, never two, also while ticks fall due during
\* the invocation.
C12_OneCheckInFlight ==
    \A c \in Calls :
        /\ inflight[c] <= 1
        /\ inflight[c] = IF pc[c] = "checking" THEN 1 ELSE 0

\* A later check invocation has run for an interval or more, a tick of the
\* interval ticker fell due meanwhile and waits in the channel, and no other
\* invocation began.
C12_Witness ==
    \E c \in Calls :
        /\ pc[c] = "checking" /\ checks[c] >= 2 /\ inflight[c] = 1
        /\ tc[c].full /\ tc[c].period = pl.interval
        /\ now >= chkEnd[c] + pl.interval

\* C13: on every path the elapsed time a call returns is the time of the
\* return minus the start time taken on entry: not negative, and not
\* measured before the last check invocation returned.
C13_ElapsedIsReturnMinusStart ==
    \A c \in Calls :
        Returned(c) =>
            /\ ret[c].took = ret[c].at - start[c]
            /\ ret[c].took >= 0
            /\ checks[c] > 0 => start[c] + ret[c].took >= chkEnd[c]

\* A call that started after time 0, made two check invocations and left by
\* the final return some time after the second.
C13_Witness ==
    \E c \in Calls :
        /\ Returned(c) /\ ret[c].path = "final" /\ start[c] > 0
        /\ checks[c] >= 2 /\ ret[c].at > chkEnd[c] /\ ret[c].took > Interval

\* A call that has entered Poll and not left it.
InFlight(c) == pc[c] \notin {"idle", "done", "panic"}

\* The run has room left for call c to go on: it may begin one more check
\* invocation, and the tick it may be waiting for falls due before the clock
\* stops.
Room(c) ==
    /\ checks[c] < CheckCap
    /\ \/ pc[c] # "select"
       \/ Err(rootCtx) # "nil"
       \/ tc[c].full
       \/ tc[c].when <= Horizon

C15_NoCheckAfterOperationSignal == \A c \in Calls : late[c].ctx = 0

\* C15, amended: at most one check invocation of a call begins after its
\* operation signal has fired, and only a call whose last check invocation
\* reported done returns nil.
C15_AtMostOneCheckAfterOperationSignal ==
    \A c \in Calls :
        /\ late[c].ctx <= 1
        /\ Returned(c) /\ ctx[c] # "open" /\ ret[c].err = "nil" =>
              chk[c] = "done" /\ ret[c].path = "success"

\* The operation signal fired before the second check invocation began,
\* that invocation reported done, and Poll returned nil.
C15_Witness ==
    \E c \in Calls :
        /\ Returned(c) /\ ctx[c] # "open" /\ rootCtx = "open"
        /\ checks[c] = 2 /\ late[c].ctx = 1 /\ ret[c].err = "nil"

\* C16: the interval of the Poller that New made is positive whenever a call
\* re-arms its ticker with it.
C16_IntervalPositive ==
    \A c \in Calls : pc[c] \in {"reset", "panic"} => pl.interval > 0

====
